---- MODULE Spec2Model ----
(***************************************************************************)
(* Tracing instrumentation of the LibreChat / Opik integration:            *)
(*   backend/otel.js      traceMCPToolCall, traceLLMCall, startSpan,       *)
(*                        calculateLLMCost, the ENABLE_OTEL stubs          *)
(*   mcp-tracing module   instrumentMCPClient, traceMCPTool,               *)
(*                        traceMCPConnection, traceBatchMCPCalls           *)
(*                                                                         *)
(* A wrapper invocation is a frame.  A frame starts a span, runs the       *)
(* wrapped operation, and when the operation settles runs its              *)
(* try/catch/finally continuation to completion (JavaScript runs a         *)
(* continuation without interleaving until its next await).                *)
(***************************************************************************)
EXTENDS Integers, Sequences, FiniteSets, TLC

VARIABLES
    enabled,    \* ENABLE_OTEL === 'true'
    frames,     \* wrapper invocations, in call order
    spans,      \* spans handed out by tracer.startSpan / the stub startSpan
    als,        \* the async-local context store: chain -> active span
    costIn,     \* arguments of a calculateLLMCost call
    costOut,    \* what that call returned
    llm,        \* a traceLLMCall whose result carries token usage
    exp,        \* the span processor, its exporter and the collector
    prop,       \* trace context on the wire between browser and backend
    logs,       \* log records handed to the telemetry logger
    test,       \* a POST /api/config/otel/test request
    fe,         \* the page: initializeOTEL calls and traceUserAction
    con,        \* the console logger's capture
    px,         \* a property read or method call on an instrumentMCPClient proxy
    term        \* SIGTERM and the SDK shutdown

vars == <<enabled, frames, spans, als, costIn, costOut, llm, exp, prop,
          logs, test, fe, con, px, term>>

(***************************************************************************)
(* Bounds                                                                  *)
(***************************************************************************)
MaxFrames == 3      \* wrapper invocations in a run of Spec
MaxCalls == 1       \* top-level wrapper invocations in a run of SpecValues
MaxBatch == 2       \* tool calls handed to one traceBatchMCPCalls
MaxTokens == 2      \* token counts tried: 0, TokenStep, .., MaxTokens * TokenStep
TokenStep == 75
MaxSpans == 3            \* spans started through the exported startSpan
MaxClock == 4            \* calls of span.end()
MaxQueueSize == 2        \* maxQueueSize, 2048 in the program
MaxExportBatchSize == 1  \* maxExportBatchSize, 512 in the program
MaxBackendSpans == 3     \* spans the backend starts for one request
MaxLogs == 2             \* records emitted in a run of SpecLog
MaxRequests == 2         \* POST /api/config/otel/test requests in a run
MaxProxyCalls == 2       \* calls made through one proxied method
MaxInitCalls == 2        \* calls of the page's initializeOTEL
MaxActions == 1          \* calls of traceUserAction
MaxConsoleCalls == 3     \* console calls seen by the console logger
MaxSignals == 2          \* SIGTERM signals delivered to the backend
MaxPending == 2          \* spans ended by the backend before it exits
MaxAttempts == 2         \* send attempts of the OTLP exporter for one batch

(***************************************************************************)
(* JavaScript values, as far as the wrappers look at them:                 *)
(*   t     what kind of value it is                                        *)
(*   json  length of JSON.stringify(v); -1 when JSON.stringify throws      *)
(*         (circular structure, BigInt); unused for undefined              *)
(*   error whether v.error is truthy                                       *)
(*   items the elements, for the array Promise.all resolves with           *)
(***************************************************************************)
Val(t, json, err) == [t |-> t, json |-> json, error |-> err, items |-> <<>>]

Undefined == Val("undefined", 0, FALSE)
Null == Val("null", 4, FALSE)
ObjSmall == Val("object", 17, FALSE)
ObjErr == Val("object", 25, TRUE)
ObjBig == Val("object", 1500, FALSE)
ObjAtCap == Val("object", 1000, FALSE)
Circular == Val("object", -1, FALSE)
Str == Val("string", 6, FALSE)
ErrObj == Val("Error", 2, FALSE)
NullProto == Val("nullproto", 18, FALSE)
TypeErr == Val("TypeError", 2, FALSE)

ArrayOf(items) == [t |-> "array", json |-> 2, error |-> FALSE, items |-> items]

IsNullish(v) == v.t \in {"undefined", "null"}

\* error.constructor is undefined on an object made without a prototype
HasConstructor(v) == v.t # "nullproto"

(***************************************************************************)
(* Serialisation                                                           *)
(***************************************************************************)
\* JSON.stringify(v): a string of v.json characters, the value undefined
\* (for undefined), or a thrown TypeError
JsonStringify(v) ==
    IF v.t = "undefined" THEN [k |-> "undefined", len |-> 0]
    ELSE IF v.json < 0 THEN [k |-> "throws", len |-> 0]
    ELSE [k |-> "string", len |-> v.json]

OutputCap == 1000

Min(a, b) == IF a <= b THEN a ELSE b

\* s.substring(0, n) of a string of len characters
Substring(len, n) == Min(len, n)

NoAttr == -1

\* the 'mcp.tool.input' attribute: JSON.stringify(toolInput) as it is;
\* an undefined attribute value is not recorded
InputAttr(input) ==
    LET js == JsonStringify(input)
    IN  IF js.k = "string" THEN js.len ELSE NoAttr

(***************************************************************************)
(* Spans                                                                   *)
(***************************************************************************)
NewSpan(parent, trace, recording, inLen) ==
    [parent |-> parent, trace |-> trace, recording |-> recording,
     status |-> "UNSET", ends |-> 0,
     inLen |-> inLen, outLen |-> NoAttr, toolError |-> FALSE]

StartSpan_Root(sp, active, inLen) ==
    Append(sp, NewSpan(0, Len(sp) + 1, TRUE, inLen))

\* tracer.startSpan(name, {attributes}) with no explicit context: the parent
\* is the span of context.active(); without one the span starts a new trace
StartSpan(sp, active, inLen) ==
    Append(sp, NewSpan(active,
                       IF active = 0 THEN Len(sp) + 1 ELSE sp[active].trace,
                       TRUE, inLen))

\* the disabled module's startSpan: () => ({ end: () => {} })
StubSpan(sp) == Append(sp, NewSpan(0, 0, FALSE, NoAttr))

EndSpan_Never(sp, s) == sp

\* finally { span.end(); }
EndSpan(sp, s) == [sp EXCEPT ![s].ends = @ + 1]

(***************************************************************************)
(* The continuations of the wrappers.  Each takes the span and how the     *)
(* wrapped operation settled and gives the span afterwards and what the    *)
(* wrapper settles with.                                                   *)
(***************************************************************************)
Pending == [st |-> "pending", v |-> Undefined]
NotRun == [st |-> "notrun", v |-> Undefined]
Resolved(v) == [st |-> "resolved", v |-> v]
Rejected(v) == [st |-> "rejected", v |-> v]

Outcome(span, ret) == [span |-> span, ret |-> ret]

\* catch (error) of traceMCPToolCall: error.message is read first, which
\* itself throws for null and undefined
ToolCatch(span, e) ==
    IF IsNullish(e) THEN Outcome(span, Rejected(TypeErr))
    ELSE Outcome([span EXCEPT !.status = "ERROR"], Rejected(e))

\* the try block of traceMCPToolCall after executeFn resolved with v
ToolTry(span, v) ==
    LET js == JsonStringify(v)
    IN  IF js.k # "string"
        THEN \* JSON.stringify threw, or undefined has no substring
             ToolCatch(span, TypeErr)
        ELSE Outcome([span EXCEPT !.outLen = Substring(js.len, OutputCap),
                                  !.toolError = (v.t = "object" /\ v.error),
                                  !.status = "OK"],
                     Resolved(v))

ToolAfter(span, exec) ==
    IF exec.st = "resolved" THEN ToolTry(span, exec.v)
    ELSE ToolCatch(span, exec.v)

\* catch (error) of traceLLMCall: reads error.message and
\* error.constructor.name before anything is recorded
LLMCatch(span, e) ==
    IF IsNullish(e) \/ ~HasConstructor(e)
    THEN Outcome(span, Rejected(TypeErr))
    ELSE Outcome([span EXCEPT !.status = "ERROR"], Rejected(e))

\* the try block of traceLLMCall after executeFn resolved with v:
\* result.usage throws for null and undefined
LLMTry(span, v) ==
    IF IsNullish(v) THEN LLMCatch(span, TypeErr)
    ELSE Outcome([span EXCEPT !.status = "OK"], Resolved(v))

LLMAfter(span, exec) ==
    IF exec.st = "resolved" THEN LLMTry(span, exec.v)
    ELSE LLMCatch(span, exec.v)

\* catch (error) of traceMCPConnection and traceBatchMCPCalls; the stub span
\* has no setAttributes, so the first statement throws
PlainCatch(span, e) ==
    IF ~span.recording \/ IsNullish(e)
    THEN Outcome(span, Rejected(TypeErr))
    ELSE Outcome([span EXCEPT !.status = "ERROR"], Rejected(e))

PlainTry(span, v) ==
    IF ~span.recording THEN PlainCatch(span, TypeErr)
    ELSE Outcome([span EXCEPT !.status = "OK"], Resolved(v))

PlainAfter(span, exec) ==
    IF exec.st = "resolved" THEN PlainTry(span, exec.v)
    ELSE PlainCatch(span, exec.v)

After(kind, span, exec) ==
    CASE kind \in {"tool", "proxy"} -> ToolAfter(span, exec)
      [] kind = "llm" -> LLMAfter(span, exec)
      [] OTHER -> PlainAfter(span, exec)

(***************************************************************************)
(* Frames and the active-context store                                     *)
(***************************************************************************)
Wrapping == {"tool", "llm", "proxy"}    \* kinds that call context.with

NewFrame(kind, parent, batch, ctxBefore, span, input) ==
    [kind |-> kind, parent |-> parent, batch |-> batch,
     ctxBefore |-> ctxBefore, span |-> span, input |-> input,
     entered |-> FALSE, pc |-> "await", execCount |-> 0,
     exec |-> Pending, ret |-> Pending]

\* the frame whose context.with established the context that the body of
\* frame f runs in; 0 is the context of the top-level caller
RECURSIVE ChainOf(_)
ChainOf(f) ==
    IF f = 0 THEN 0
    ELSE IF frames[f].entered THEN f
    ELSE ChainOf(frames[f].parent)

InFlight == {g \in 1..Len(frames) : frames[g].entered /\ frames[g].pc = "await"}

Max(S) == CHOOSE x \in S : \A y \in S : y <= x

\* what a single process-wide "current span" variable would hold
ActiveSpan_Global(f) ==
    IF InFlight = {} THEN 0 ELSE frames[Max(InFlight)].span

\* trace.getActiveSpan() / context.active() as seen by code running in the
\* body of frame f (f = 0: the top-level caller)
ActiveSpan(f) == als[ChainOf(f)]

EnterWith_Leaky(store, caller, f, span) ==
    [c \in DOMAIN store \cup {f} |->
        IF c = f \/ c = caller THEN span ELSE store[c]]

\* context.with(trace.setSpan(context.active(), span), fn): fn and everything
\* it awaits run in a context of their own; the caller's context is untouched
EnterWith(store, caller, f, span) ==
    [c \in DOMAIN store \cup {f} |-> IF c = f THEN span ELSE store[c]]

\* code may call a wrapper from the top level or from inside a wrapped
\* operation that is still running
CanCallFrom(p) ==
    \/ p = 0
    \/ /\ p \in 1..Len(frames)
       /\ frames[p].kind # "batch"
       /\ frames[p].pc = "await"
       /\ frames[p].exec.st = "pending"
       /\ frames[p].execCount > 0

InputValues == {ObjSmall, ObjBig, ObjAtCap, Circular}
ResultValues == {Undefined, Null, ObjSmall, ObjErr, ObjBig, ObjAtCap, Circular, Str}
ThrownValues == {ErrObj, Null, Undefined, Str, NullProto}

\* one traceMCPToolCall invocation up to its await, made from the body of
\* frame p; gives the frame and the spans afterwards
ToolStart(kind, p, batch, input, sp, active) ==
    IF ~enabled
    THEN \* traceMCPToolCall: () => {}
         [frame |-> [NewFrame(kind, p, batch, active, 0, input)
                        EXCEPT !.pc = "done", !.exec = NotRun,
                               !.ret = Resolved(Undefined)],
          spans |-> sp]
    ELSE IF JsonStringify(input).k = "throws"
    THEN \* the attributes are built before tracer.startSpan is reached
         [frame |-> [NewFrame(kind, p, batch, active, 0, input)
                        EXCEPT !.pc = "done", !.exec = NotRun,
                               !.ret = Rejected(TypeErr)],
          spans |-> sp]
    ELSE [frame |-> [NewFrame(kind, p, batch, active, Len(sp) + 1, input)
                        EXCEPT !.entered = TRUE, !.execCount = 1],
          spans |-> StartSpan(sp, active, InputAttr(input))]

StoreAfter(store, chain, f, frame) ==
    IF frame.entered THEN EnterWith(store, chain, f, frame.span)
    ELSE store

\* traceMCPToolCall(toolName, toolInput, executeFn, metadata), and a callTool
\* made through an instrumentMCPClient proxy, which forwards to it
CallTool(kind, p, input) ==
    /\ Len(frames) < MaxFrames
    /\ CanCallFrom(p)
    /\ LET st == ToolStart(kind, p, 0, input, spans, ActiveSpan(p))
           f == Len(frames) + 1
       IN  /\ frames' = Append(frames, st.frame)
           /\ spans' = st.spans
           /\ als' = StoreAfter(als, ChainOf(p), f, st.frame)
    /\ UNCHANGED <<enabled, costIn, costOut, llm, exp, prop, logs, test, fe, con, px, term>>

\* traceLLMCall(provider, model, request, executeFn, metadata)
CallLLM(p) ==
    /\ Len(frames) < MaxFrames
    /\ CanCallFrom(p)
    /\ LET f == Len(frames) + 1
       IN  IF ~enabled
           THEN /\ frames' = Append(frames,
                        [NewFrame("llm", p, 0, ActiveSpan(p), 0, ObjSmall)
                            EXCEPT !.pc = "done", !.exec = NotRun,
                                   !.ret = Resolved(Undefined)])
                /\ UNCHANGED <<spans, als>>
           ELSE /\ frames' = Append(frames,
                        [NewFrame("llm", p, 0, ActiveSpan(p), Len(spans) + 1, ObjSmall)
                            EXCEPT !.entered = TRUE, !.execCount = 1])
                /\ spans' = StartSpan(spans, ActiveSpan(p), NoAttr)
                /\ als' = EnterWith(als, ChainOf(p), f, Len(spans) + 1)
    /\ UNCHANGED <<enabled, costIn, costOut, llm, exp, prop, logs, test, fe, con, px, term>>

\* traceMCPConnection(serverName, serverUrl, connectFn): the span comes from
\* the exported startSpan and is never made the active span
CallConn(p) ==
    /\ Len(frames) < MaxFrames
    /\ CanCallFrom(p)
    /\ frames' = Append(frames,
            [NewFrame("conn", p, 0, ActiveSpan(p), Len(spans) + 1, ObjSmall)
                EXCEPT !.execCount = 1])
    /\ spans' = IF enabled THEN StartSpan(spans, ActiveSpan(p), NoAttr)
                ELSE StubSpan(spans)
    /\ UNCHANGED <<enabled, als, costIn, costOut, llm, exp, prop, logs, test, fe, con, px, term>>

\* Promise.all over the wrappers' promises: rejected with the first rejection,
\* resolved with the values in call order once every promise resolved
PromiseAll(all, fr, kids) ==
    IF all.st # "pending" THEN all
    ELSE IF \E k \in kids : fr[k].ret.st = "rejected"
    THEN Rejected(fr[CHOOSE k \in kids : /\ fr[k].ret.st = "rejected"
                                          /\ \A j \in kids : fr[j].ret.st = "rejected" => k <= j].ret.v)
    ELSE IF \A k \in kids : fr[k].ret.st = "resolved"
    THEN LET first == CHOOSE k \in kids : \A j \in kids : k <= j
         IN  Resolved(ArrayOf([i \in 1..Cardinality(kids) |-> fr[first + i - 1].ret.v]))
    ELSE all

Kids(fr, b) == {k \in 1..Len(fr) : fr[k].batch = b}

\* toolCalls.map(... => traceMCPTool(...)): every tool call of the batch is
\* started, in order, before the batch awaits anything
RECURSIVE StartKids(_, _, _, _, _, _, _)
StartKids(inputs, i, b, active, chain, fr, st) ==
    IF i > Len(inputs) THEN [frames |-> fr, spans |-> st.spans, als |-> st.als]
    ELSE LET ts == ToolStart("tool", b, b, inputs[i], st.spans, active)
             f == Len(fr) + 1
         IN  StartKids(inputs, i + 1, b, active, chain,
                       Append(fr, ts.frame),
                       [spans |-> ts.spans,
                        als |-> StoreAfter(st.als, chain, f, ts.frame)])

BatchInputs(values) == UNION {[1..n -> values] : n \in 0..MaxBatch}

\* traceBatchMCPCalls(operationName, toolCalls, context) up to its await
CallBatch(p, inputs) ==
    /\ Len(frames) + 1 + Len(inputs) <= MaxFrames
    /\ CanCallFrom(p)
    /\ LET b == Len(frames) + 1
           active == ActiveSpan(p)
           sp == IF enabled THEN StartSpan(spans, active, NoAttr)
                 ELSE StubSpan(spans)
           bf == NewFrame("batch", p, 0, active, Len(spans) + 1, ObjSmall)
           st == StartKids(inputs, 1, b, active, ChainOf(p),
                           Append(frames, bf), [spans |-> sp, als |-> als])
           kids == Kids(st.frames, b)
       IN  /\ frames' = [st.frames EXCEPT ![b].exec = PromiseAll(Pending, st.frames, kids),
                                          ![b].execCount = 1]
           /\ spans' = st.spans
           /\ als' = st.als
    /\ UNCHANGED <<enabled, costIn, costOut, llm, exp, prop, logs, test, fe, con, px, term>>

Settlements(results, thrown) ==
    {Resolved(v) : v \in results} \cup {Rejected(e) : e \in thrown}

\* the wrapped operation of frame f settles with out, and the wrapper's
\* try/catch/finally runs to its end
Settle(f, out) ==
    /\ f \in 1..Len(frames)
    /\ frames[f].kind # "batch"
    /\ frames[f].pc = "await"
    /\ frames[f].exec.st = "pending"
    /\ LET fr == frames[f]
           o == After(fr.kind, spans[fr.span], out)
           done == [frames EXCEPT ![f].exec = out, ![f].ret = o.ret, ![f].pc = "done"]
           b == fr.batch
       IN  /\ spans' = EndSpan([spans EXCEPT ![fr.span] = o.span], fr.span)
           /\ frames' = IF b = 0 THEN done
                        ELSE [done EXCEPT ![b].exec = PromiseAll(@, done, Kids(done, b))]
    /\ UNCHANGED <<enabled, als, costIn, costOut, llm, exp, prop, logs, test, fe, con, px, term>>

\* the continuation of traceBatchMCPCalls after its Promise.all settled
BatchSettle(b) ==
    /\ b \in 1..Len(frames)
    /\ frames[b].kind = "batch"
    /\ frames[b].pc = "await"
    /\ frames[b].exec.st # "pending"
    /\ LET fr == frames[b]
           o == After("batch", spans[fr.span], fr.exec)
       IN  /\ spans' = EndSpan([spans EXCEPT ![fr.span] = o.span], fr.span)
           /\ frames' = [frames EXCEPT ![b].ret = o.ret, ![b].pc = "done"]
    /\ UNCHANGED <<enabled, als, costIn, costOut, llm, exp, prop, logs, test, fe, con, px, term>>

NoCost == [provider |-> "", model |-> "", prompt |-> 0, completion |-> 0]
NoResult == [nan |-> FALSE, cost |-> -1]

NoLLM ==
    [pc |-> "idle", provider |-> "", model |-> "",
     usage |-> [present |-> FALSE, prompt |-> -1, completion |-> -1, total |-> -1],
     span |-> NewSpan(0, 0, FALSE, NoAttr),
     attrs |-> [prompt |-> -1, completion |-> -1, total |-> -1,
                cost |-> [nan |-> FALSE, cost |-> -1]]]
NoExport ==
    [pc |-> "off", url |-> "", key |-> "", endpoint |-> "", authorization |-> "",
     spans |-> <<>>, clock |-> 0,
     queue |-> <<>>, order |-> <<>>, dropped |-> 0, flushes |-> 0,
     inflight |-> <<>>, attempts |-> 0, sends |-> 0,
     exported |-> 0, lost |-> 0, reported |-> 0]
NoProp ==
    [pc |-> "idle", traced |-> FALSE,
     ctx |-> [traceId |-> <<>>, spanId |-> <<>>, traceFlags |-> 0],
     header |-> <<>>,
     remote |-> [ok |-> FALSE, traceId |-> <<>>, spanId |-> <<>>, traceFlags |-> 0],
     spans |-> <<>>]

NoLogs == <<>>
NoTest ==
    [pc |-> "idle", traceparent |-> "none", collector |-> "up",
     recorded |-> FALSE, queue |-> 0, exported |-> 0, responses |-> <<>>, served |-> <<>>]
NoFrontend ==
    [otelInitialized |-> FALSE, calls |-> <<>>,
     registered |-> 0, consoleInstrumented |-> 0, errorsInstrumented |-> 0,
     actions |-> <<>>]
NoConsole ==
    [isLogging |-> FALSE, pc |-> "idle", length |-> 0,
     printed |-> 0, warned |-> 0, emitted |-> 0, returned |-> <<>>]
NoProxy ==
    [pc |-> "idle", prop |-> "", got |-> "", args |-> <<>>, original |-> "",
     invocations |-> 0, receiver |-> "", passed |-> <<>>,
     spansMade |-> 0, spanTool |-> Undefined, spanInput |-> Undefined,
     getters |-> 0, calls |-> 0,
     caller |-> [form |-> "", v |-> Undefined]]
NoTerm ==
    [pc |-> "running", exitCode |-> Undefined, sdk |-> "started",
     queue |-> 0, flushed |-> 0, dropped |-> 0,
     signals |-> 0, chains |-> <<>>, exitedBy |-> 0]

Init ==
    /\ enabled \in BOOLEAN
    /\ frames = <<>>
    /\ spans = <<>>
    /\ als = (0 :> 0)
    /\ costIn = NoCost
    /\ costOut = NoResult
    /\ llm = NoLLM
    /\ exp = NoExport
    /\ prop = NoProp
    /\ logs = NoLogs
    /\ test = NoTest
    /\ fe = NoFrontend
    /\ con = NoConsole
    /\ px = NoProxy
    /\ term = NoTerm

\* Spec: up to MaxFrames wrapper invocations, nested and interleaved at will,
\* over one value of each shape
NestValues == {ObjSmall}
NestThrown == {ErrObj}

Next ==
    \/ \E p \in 0..Len(frames), k \in {"tool", "proxy"}, i \in NestValues : CallTool(k, p, i)
    \/ \E p \in 0..Len(frames) : CallLLM(p)
    \/ \E p \in 0..Len(frames) : CallConn(p)
    \/ \E p \in 0..Len(frames), is \in BatchInputs(NestValues) : CallBatch(p, is)
    \/ \E f \in 1..Len(frames), o \in Settlements(NestValues, NestThrown) : Settle(f, o)
    \/ \E b \in 1..Len(frames) : BatchSettle(b)

Spec == Init /\ [][Next]_vars

\* SpecValues: up to MaxCalls top-level invocations over every shape of
\* input, result and thrown value
TopLevel == {f \in 1..Len(frames) : frames[f].parent = 0}

NextValues ==
    \/ /\ Cardinality(TopLevel) < MaxCalls
       /\ \/ \E k \in {"tool", "proxy"}, i \in InputValues : CallTool(k, 0, i)
          \/ CallLLM(0)
          \/ CallConn(0)
          \/ \E is \in BatchInputs(InputValues) : CallBatch(0, is)
    \/ \E f \in 1..Len(frames), o \in Settlements(ResultValues, ThrownValues) : Settle(f, o)
    \/ \E b \in 1..Len(frames) : BatchSettle(b)

SpecValues == Init /\ [][NextValues]_vars

(***************************************************************************)
(* calculateLLMCost.  Prices are per 1M tokens; the model keeps them times *)
(* 100 so that 0.25 is an integer, and a cost c stands for c / 1e8 dollar. *)
(***************************************************************************)
Price(prompt, completion) == [prompt |-> prompt, completion |-> completion]

pricing ==
    ("openai" :> ("gpt-4" :> Price(3000, 6000)
                  @@ "gpt-4-turbo" :> Price(1000, 3000)
                  @@ "gpt-3.5-turbo" :> Price(50, 150)))
    @@ ("anthropic" :> ("claude-3-opus" :> Price(1500, 7500)
                        @@ "claude-3-sonnet" :> Price(300, 1500)
                        @@ "claude-3-haiku" :> Price(25, 125)))
    @@ ("google" :> ("gemini-pro" :> Price(50, 150)))

DefaultPricing == Price(100, 200)

\* property names that every object literal inherits from Object.prototype
\* with a truthy value (a function)
Inherited == {"constructor", "toString"}

\* obj[key] on one of the object literals of the table: the own property,
\* else the inherited one, else undefined
Lookup(obj, key) ==
    IF key \in DOMAIN obj THEN [k |-> "own", v |-> obj[key]]
    ELSE IF key \in Inherited THEN [k |-> "inherited", v |-> <<>>]
    ELSE [k |-> "undefined", v |-> <<>>]

\* pricing[provider]?.[model]: the functions found under an inherited name
\* inherit the same names themselves
ModelLookup(provider, model) ==
    LET byProvider == Lookup(pricing, provider)
    IN  CASE byProvider.k = "undefined" -> byProvider
          [] byProvider.k = "own" -> Lookup(byProvider.v, model)
          [] OTHER -> IF model \in Inherited
                      THEN [k |-> "inherited", v |-> <<>>]
                      ELSE [k |-> "undefined", v |-> <<>>]

Number(n) == [nan |-> FALSE, cost |-> n]
NaN == [nan |-> TRUE, cost |-> 0]

\* calculateLLMCost(provider, model, promptTokens, completionTokens)
CalculateLLMCost(provider, model, promptTokens, completionTokens) ==
    LET found == ModelLookup(provider, model)
        \* found || { prompt: 1, completion: 2 }
        modelPricing == IF found.k = "undefined" THEN [k |-> "own", v |-> DefaultPricing]
                        ELSE found
    IN  IF modelPricing.k = "own"
        THEN Number(promptTokens * modelPricing.v.prompt
                    + completionTokens * modelPricing.v.completion)
        ELSE \* a function has no prompt field: number * undefined
             NaN

Providers == {"openai", "anthropic", "google", "azure", "constructor"}
Models == {"gpt-4", "gpt-4-turbo", "gpt-3.5-turbo", "claude-3-opus",
           "claude-3-sonnet", "claude-3-haiku", "gemini-pro", "gpt-5", "toString"}
TokenCounts == {k * TokenStep : k \in 0..MaxTokens}

CostCall(provider, model, promptTokens, completionTokens) ==
    /\ costIn' = [provider |-> provider, model |-> model,
                  prompt |-> promptTokens, completion |-> completionTokens]
    /\ costOut' = CalculateLLMCost(provider, model, promptTokens, completionTokens)
    /\ UNCHANGED <<enabled, frames, spans, als, llm, exp, prop, logs, test, fe, con, px, term>>

NextCost ==
    \E provider \in Providers, model \in Models, p \in TokenCounts, c \in TokenCounts :
        CostCall(provider, model, p, c)

SpecCost == Init /\ [][NextCost]_vars

(***************************************************************************)
(* Properties                                                              *)
(***************************************************************************)
Frames == 1..Len(frames)
Done(f) == frames[f].pc = "done"
SpanOf(f) == spans[frames[f].span]

\* C1: whatever value E the wrapped operation throws or rejects with,
\* traceMCPToolCall and traceLLMCall reject with that same E and their span
\* has status ERROR.
ExceptionTransparency ==
    \A f \in Frames :
        (enabled /\ frames[f].kind \in {"tool", "llm"} /\ Done(f)
            /\ frames[f].exec.st = "rejected")
        => /\ frames[f].ret = Rejected(frames[f].exec.v)
           /\ SpanOf(f).status = "ERROR"

\* C2: with tracing enabled traceMCPToolCall and traceLLMCall run the wrapped
\* operation exactly once, and when it resolves with V they resolve with V.
SuccessTransparency ==
    \A f \in Frames :
        (enabled /\ frames[f].kind \in {"tool", "llm"} /\ Done(f))
        => /\ frames[f].execCount = 1
           /\ frames[f].exec.st = "resolved" => frames[f].ret = frames[f].exec

\* C3: with tracing disabled every wrapper entry point runs the wrapped
\* operation exactly once and settles the way the operation settled.
DisabledTransparency ==
    \A f \in Frames :
        (~enabled /\ Done(f))
        => /\ frames[f].execCount = 1
           /\ frames[f].ret = frames[f].exec

\* C4: the span a wrapper started is ended exactly once when the wrapper has
\* finished, and is not ended while the operation the wrapper awaits is
\* still pending.
SpanEndedExactlyOnce ==
    \A f \in Frames :
        frames[f].span # 0
        => /\ SpanOf(f).ends = (IF Done(f) THEN 1 ELSE 0)
           /\ SpanOf(f).ends > 0 => frames[f].exec.st \in {"resolved", "rejected"}

\* a batch that rejected and closed its span while one of its tool calls is
\* still running, next to a tool call that failed
SpanEndedWitness ==
    \E b \in Frames, k \in Frames, j \in Frames :
        /\ frames[b].kind = "batch" /\ Done(b) /\ SpanOf(b).ends = 1
        /\ frames[k].batch = b /\ Done(k) /\ frames[k].exec.st = "rejected"
        /\ SpanOf(k).ends = 1
        /\ frames[j].batch = b /\ ~Done(j) /\ SpanOf(j).ends = 0

\* C5: a span created while span A is the active span has A as its parent
\* and A's trace id.
ParentLinkage ==
    \A f \in Frames :
        (frames[f].span # 0 /\ frames[f].ctxBefore # 0)
        => /\ SpanOf(f).parent = frames[f].ctxBefore
           /\ SpanOf(f).trace = spans[frames[f].ctxBefore].trace

\* a tool call made inside the execute of a model call
ParentLinkageWitness ==
    \E f \in Frames :
        /\ frames[f].kind = "tool" /\ frames[f].span # 0
        /\ frames[f].parent # 0 /\ frames[frames[f].parent].kind = "llm"
        /\ frames[f].ctxBefore = frames[frames[f].parent].span

\* C6: with several wrapped operations in flight, code inside operation i
\* sees the span of operation i as the active span, and the spans it creates
\* are children of that span, never of another operation's span.
ContextIsolation ==
    \A f \in Frames :
        LET c == ChainOf(frames[f].parent)
        IN  /\ frames[f].ctxBefore = (IF c = 0 THEN 0 ELSE frames[c].span)
            /\ (frames[f].span # 0 /\ c # 0) => SpanOf(f).parent = frames[c].span

\* operations i and j are both in flight and a span was created inside i
\* after j had started
ContextIsolationWitness ==
    \E i \in Frames, j \in Frames, f \in Frames :
        /\ i < j /\ j < f
        /\ frames[i].entered /\ ~Done(i)
        /\ frames[j].entered /\ ~Done(j) /\ ChainOf(frames[j].parent) # i
        /\ frames[f].parent = i /\ frames[f].span # 0

\* C7: once traceMCPToolCall or traceLLMCall has returned, the caller's
\* active span is the one it had before the call, and the wrapper's span is
\* at no time the active span of its caller.
ContextRestored ==
    \A f \in Frames :
        frames[f].entered
        => /\ ActiveSpan(frames[f].parent) # frames[f].span
           /\ Done(f) => ActiveSpan(frames[f].parent) = frames[f].ctxBefore

\* a wrapper called under an active span has thrown, another has returned
ContextRestoredWitness ==
    \E f \in Frames, g \in Frames :
        /\ frames[f].entered /\ Done(f) /\ frames[f].ctxBefore # 0
        /\ frames[f].ret.st = "rejected"
        /\ frames[g].entered /\ Done(g) /\ frames[g].ret.st = "resolved"

\* C8: a tool result that carries an error field ends the tool span with
\* status ERROR; status OK is only set for results without an error field.
ErrorFieldStatus ==
    \A f \in Frames :
        (frames[f].kind \in {"tool", "proxy"} /\ frames[f].span # 0 /\ Done(f)
            /\ frames[f].exec.st = "resolved")
        => /\ frames[f].exec.v.error => SpanOf(f).status = "ERROR"
           /\ SpanOf(f).status = "OK" => ~frames[f].exec.v.error

\* C9: the serialized input and the serialized result recorded on a tool
\* span are each at most 1000 characters long.
AttributeCap ==
    \A s \in 1..Len(spans) :
        /\ spans[s].inLen <= OutputCap
        /\ spans[s].outLen <= OutputCap

Listed(provider, model) ==
    provider \in DOMAIN pricing /\ model \in DOMAIN pricing[provider]

\* C10: calculateLLMCost returns prompt/1e6 * prompt price + completion/1e6 *
\* completion price, with the table's prices for a listed (provider, model)
\* and with the default pair (1, 2) for every other pair of strings.
CostFormula ==
    costOut # NoResult
    => LET price == IF Listed(costIn.provider, costIn.model)
                    THEN pricing[costIn.provider][costIn.model]
                    ELSE Price(100, 200)
       IN  costOut = Number(costIn.prompt * price.prompt
                            + costIn.completion * price.completion)

(***************************************************************************)
(* traceLLMCall on a result that carries token usage                       *)
(***************************************************************************)
Missing == -1       \* the field is not on the object

Usage(p, c, t) == [present |-> TRUE, prompt |-> p, completion |-> c, total |-> t]
NoUsage == [present |-> FALSE, prompt |-> Missing, completion |-> Missing, total |-> Missing]

\* x || 0
OrZero(x) == IF x = Missing THEN 0 ELSE x

LLMTokens_TotalZero(usage) ==
    [prompt |-> OrZero(usage.prompt),
     completion |-> OrZero(usage.completion),
     total |-> OrZero(usage.total)]

\* const usage = result.usage || {}; and the three token counts read from it
LLMTokens(usage) ==
    LET promptTokens == OrZero(usage.prompt)
        completionTokens == OrZero(usage.completion)
    IN  [prompt |-> promptTokens,
         completion |-> completionTokens,
         \* usage.total_tokens || promptTokens + completionTokens
         total |-> IF usage.total = Missing \/ usage.total = 0
                   THEN promptTokens + completionTokens
                   ELSE usage.total]

LLMAttributes_CostOfTotal(provider, model, usage) ==
    LET tokens == LLMTokens(usage)
    IN  [prompt |-> tokens.prompt, completion |-> tokens.completion,
         total |-> tokens.total,
         cost |-> CalculateLLMCost(provider, model, tokens.prompt, tokens.total)]

\* the 'llm.response.*' attributes set on the span after a successful call
LLMAttributes(provider, model, usage) ==
    LET tokens == LLMTokens(usage)
    IN  [prompt |-> tokens.prompt, completion |-> tokens.completion,
         total |-> tokens.total,
         cost |-> CalculateLLMCost(provider, model, tokens.prompt, tokens.completion)]

LLMProviders == {"openai", "azure"}
LLMModels == {"gpt-4", "gpt-5", "toString"}
UsageValues ==
    {NoUsage} \cup {Usage(p, c, t) : p \in TokenCounts \cup {Missing},
                                     c \in TokenCounts \cup {Missing},
                                     t \in {Missing, 0, 3 * TokenStep}}

\* traceLLMCall(provider, model, request, executeFn) up to its await
LLMCall(provider, model) ==
    /\ llm.pc = "idle"
    /\ llm' = IF enabled
              THEN [llm EXCEPT !.pc = "await", !.provider = provider, !.model = model,
                               !.span = NewSpan(0, 1, TRUE, NoAttr)]
              ELSE \* traceLLMCall: () => {}
                   [llm EXCEPT !.pc = "done", !.provider = provider, !.model = model]
    /\ UNCHANGED <<enabled, frames, spans, als, costIn, costOut, exp, prop, logs, test, fe, con, px, term>>

\* executeFn resolves with an object whose usage is usage; the rest of the
\* try block and the finally run
LLMSettle(usage) ==
    /\ llm.pc = "await"
    /\ LET o == LLMTry(llm.span, ObjSmall)
       IN  llm' = [llm EXCEPT !.pc = "done", !.usage = usage,
                              !.attrs = LLMAttributes(llm.provider, llm.model, usage),
                              !.span = [o.span EXCEPT !.ends = @ + 1]]
    /\ UNCHANGED <<enabled, frames, spans, als, costIn, costOut, exp, prop, logs, test, fe, con, px, term>>

\* the caller makes its next call
LLMReturn ==
    /\ llm.pc = "done"
    /\ llm' = NoLLM
    /\ UNCHANGED <<enabled, frames, spans, als, costIn, costOut, exp, prop, logs, test, fe, con, px, term>>

NextLLM ==
    \/ \E provider \in LLMProviders, model \in LLMModels : LLMCall(provider, model)
    \/ \E usage \in UsageValues : LLMSettle(usage)
    \/ LLMReturn

SpecLLM == Init /\ [][NextLLM]_vars

LLMRecorded == enabled /\ llm.pc = "done"

LeqCost(a, b) == ~a.nan /\ ~b.nan /\ a.cost <= b.cost

\* C11: the estimated cost recorded by traceLLMCall is a number, never
\* negative, and for the same provider and model it does not decrease when
\* the prompt tokens or the completion tokens grow.
CostMonotoneNonNegative ==
    LLMRecorded
    => /\ ~llm.attrs.cost.nan
       /\ llm.attrs.cost.cost >= 0
       /\ \A p \in TokenCounts, c \in TokenCounts :
            (p >= llm.attrs.prompt /\ c >= llm.attrs.completion)
            => LeqCost(llm.attrs.cost,
                       LLMAttributes(llm.provider, llm.model, Usage(p, c, Missing)).cost)

\* C12 as stated: the recorded prompt, completion and total token counts are
\* the result's, and each of the three is 0 when its field is missing.
MissingTokensAreZero ==
    LLMRecorded
    => /\ llm.attrs.prompt = OrZero(llm.usage.prompt)
       /\ llm.attrs.completion = OrZero(llm.usage.completion)
       /\ llm.attrs.total = OrZero(llm.usage.total)

\* C12 as amended: the recorded prompt and completion token counts are the
\* result's, 0 when missing; the recorded total is the result's total_tokens
\* when that is present and not 0, and otherwise the sum of the recorded
\* prompt and completion counts.
TokenDefaults ==
    LLMRecorded
    => /\ llm.attrs.prompt = OrZero(llm.usage.prompt)
       /\ llm.attrs.completion = OrZero(llm.usage.completion)
       /\ llm.attrs.total = (IF llm.usage.total \in {Missing, 0}
                             THEN llm.attrs.prompt + llm.attrs.completion
                             ELSE llm.usage.total)

\* a result without total_tokens and without completion_tokens but with
\* prompt tokens, and one without any usage object
TokenDefaultsWitness ==
    /\ LLMRecorded
    /\ llm.usage.total = Missing /\ llm.usage.completion = Missing
    /\ llm.usage.prompt > 0 /\ llm.attrs.total = llm.usage.prompt

Unset == "missing"       \* the environment variable is not set (or is empty)
EnvValues == {"set", Unset}

\* process.env.OPIK_URL || 'http://localhost:8080'
OPIK_URL(env) == IF env = Unset THEN "http://localhost:8080" ELSE "configured"
\* process.env.OPIK_API_KEY || ''
OPIK_API_KEY(env) == IF env = Unset THEN "" ELSE "configured"

\* the module is loaded with ENABLE_OTEL=true: exporter, processor and SDK
\* are constructed and started whatever the two settings are
Load(url, key) ==
    /\ enabled
    /\ exp.pc = "off"
    /\ exp' = [exp EXCEPT !.pc = "running", !.url = url, !.key = key,
                          !.endpoint = OPIK_URL(url),
                          !.authorization = OPIK_API_KEY(key)]
    /\ UNCHANGED <<enabled, frames, spans, als, costIn, costOut, llm, prop, logs, test, fe, con, px, term>>

\* startSpan(name, attributes) of the helper API
ExpStartSpan ==
    /\ exp.pc = "running"
    /\ Len(exp.spans) < MaxSpans
    /\ exp' = [exp EXCEPT !.spans = Append(@,
                  [ended |-> FALSE, endTime |-> 0, status |-> "UNSET", calls |-> 0])]
    /\ UNCHANGED <<enabled, frames, spans, als, costIn, costOut, llm, prop, logs, test, fe, con, px, term>>

\* span.setStatus(status): ignored on an ended span
SetStatus(span, status) ==
    IF span.ended THEN span ELSE [span EXCEPT !.status = status]

ExpSetStatus(s, status) ==
    /\ exp.pc = "running"
    /\ s \in 1..Len(exp.spans)
    /\ exp' = [exp EXCEPT !.spans[s] = SetStatus(@, status)]
    /\ UNCHANGED <<enabled, frames, spans, als, costIn, costOut, llm, prop, logs, test, fe, con, px, term>>

AddToBuffer_DropOldest(e, s) ==
    IF Len(e.queue) >= MaxQueueSize
    THEN [e EXCEPT !.dropped = @ + 1, !.queue = Append(Tail(@), s), !.order = Append(@, s)]
    ELSE [e EXCEPT !.queue = Append(@, s), !.order = Append(@, s)]

\* BatchSpanProcessor.onEnd(span): a full queue drops the span that arrives
AddToBuffer(e, s) ==
    IF Len(e.queue) >= MaxQueueSize
    THEN [e EXCEPT !.dropped = @ + 1, !.order = Append(@, s)]
    ELSE [e EXCEPT !.queue = Append(@, s), !.order = Append(@, s)]

End_Again(e, s, time) ==
    AddToBuffer([e EXCEPT !.spans[s].ended = TRUE, !.spans[s].endTime = time,
                          !.spans[s].calls = @ + 1], s)

\* span.end(): only the first call ends the span and hands it to the processor
End(e, s, time) ==
    IF e.spans[s].ended
    THEN [e EXCEPT !.spans[s].calls = @ + 1]
    ELSE AddToBuffer([e EXCEPT !.spans[s].ended = TRUE, !.spans[s].endTime = time,
                               !.spans[s].calls = @ + 1], s)

\* span.end() called by a wrapper's finally or by a user of startSpan
ExpEnd(s) ==
    /\ exp.pc = "running"
    /\ s \in 1..Len(exp.spans)
    /\ exp.clock < MaxClock
    /\ LET time == exp.clock + 1
       IN  exp' = End([exp EXCEPT !.clock = time], s, time)
    /\ UNCHANGED <<enabled, frames, spans, als, costIn, costOut, llm, prop, logs, test, fe, con, px, term>>

\* the processor's timer (or a full batch) takes one batch off the queue
Flush ==
    /\ exp.pc = "running"
    /\ exp.inflight = <<>>
    /\ exp.queue # <<>>
    /\ LET n == Min(Len(exp.queue), MaxExportBatchSize)
       IN  exp' = [exp EXCEPT !.inflight = SubSeq(exp.queue, 1, n),
                              !.queue = SubSeq(exp.queue, n + 1, Len(exp.queue)),
                              !.attempts = 0, !.flushes = @ + 1]
    /\ UNCHANGED <<enabled, frames, spans, als, costIn, costOut, llm, prop, logs, test, fe, con, px, term>>

SendResults == {"success", "retryable", "failure"}

CanRetry_Always(result, attempts) == result = "retryable"

\* a retryable answer is retried while attempts are left
CanRetry(result, attempts) == result = "retryable" /\ attempts < MaxAttempts

\* one request of the exporter to the collector and its answer (a timeout
\* and a refused connection are failures)
Send(result) ==
    /\ exp.pc = "running"
    /\ exp.inflight # <<>>
    /\ LET attempts == exp.attempts + 1
           e == [exp EXCEPT !.attempts = attempts, !.sends = @ + 1]
       IN  exp' = IF result = "success"
                  THEN [e EXCEPT !.inflight = <<>>, !.exported = @ + Len(exp.inflight)]
                  ELSE IF CanRetry(result, attempts)
                  THEN e
                  ELSE \* the failure goes to the global error handler, which logs it
                       [e EXCEPT !.inflight = <<>>, !.lost = @ + Len(exp.inflight),
                                 !.reported = @ + 1]
    /\ UNCHANGED <<enabled, frames, spans, als, costIn, costOut, llm, prop, logs, test, fe, con, px, term>>

\* spans of the helper API: started, given a status, ended any number of times
NextEnd ==
    \/ \E url \in EnvValues, key \in EnvValues : Load(url, key)
    \/ ExpStartSpan
    \/ \E s \in 1..MaxSpans, status \in {"OK", "ERROR"} : ExpSetStatus(s, status)
    \/ \E s \in 1..MaxSpans : ExpEnd(s)

SpecEnd == Init /\ [][NextEnd]_vars

\* ended spans on their way to the collector
NextExport ==
    \/ \E url \in EnvValues, key \in EnvValues : Load(url, key)
    \/ ExpStartSpan
    \/ \E s \in 1..MaxSpans : ExpEnd(s)
    \/ Flush
    \/ \E result \in SendResults : Send(result)

SpecExport == Init /\ [][NextExport]_vars

FirstOf(seq, n) == SubSeq(seq, 1, n)
LastOf(seq, n) == SubSeq(seq, Len(seq) - n + 1, Len(seq))
Handed(s) == Cardinality({i \in 1..Len(exp.order) : exp.order[i] = s})
Accounted ==
    Len(exp.order) = exp.dropped + Len(exp.queue) + Len(exp.inflight)
                     + exp.exported + exp.lost

EndIdempotent ==
    /\ [](\A s \in 1..Len(exp.spans) :
            Handed(s) = IF exp.spans[s].ended THEN 1 ELSE 0)
    /\ [][\A s \in 1..Len(exp.spans) :
            exp.spans[s].ended
            => /\ exp'.spans[s].ended
               /\ exp'.spans[s].endTime = exp.spans[s].endTime
               /\ exp'.spans[s].status = exp.spans[s].status]_vars

\* a span with a status was ended, and end() was called on it again later
EndTwiceWitness ==
    \E s \in 1..Len(exp.spans) :
        /\ exp.spans[s].ended /\ exp.spans[s].calls >= 2
        /\ exp.spans[s].status = "ERROR"
        /\ exp.spans[s].endTime < exp.clock

\* C20: with the collector address or the credential missing from the
\* configuration, spans are still created and closed but no export to any
\* collector is attempted.
NoExportWithoutConfig ==
    (exp.pc = "running" /\ (exp.url = Unset \/ exp.key = Unset))
    => exp.sends = 0 /\ exp.inflight = <<>>

(***************************************************************************)
(* Trace context between the browser and the backend: the W3C traceparent  *)
(* header written by the page's propagator and read by the backend's       *)
(***************************************************************************)
TraceIdLen == 32     \* characters of a trace id
SpanIdLen == 16      \* characters of a span id
ByteLen == 2         \* characters of the version and of the flags

HexValue ==
    ("0" :> 0) @@ ("1" :> 1) @@ ("2" :> 2) @@ ("3" :> 3) @@ ("4" :> 4) @@ ("5" :> 5)
    @@ ("6" :> 6) @@ ("7" :> 7) @@ ("8" :> 8) @@ ("9" :> 9) @@ ("a" :> 10)
    @@ ("b" :> 11) @@ ("c" :> 12) @@ ("d" :> 13) @@ ("e" :> 14) @@ ("f" :> 15)
HexDigits == DOMAIN HexValue      \* [\da-f]
Whitespace == {" "}

Rep(c, n) == [i \in 1..n |-> c]
ZerosThen(c, n) == [i \in 1..n |-> IF i = n THEN c ELSE "0"]
IsHex(seq) == \A i \in 1..Len(seq) : seq[i] \in HexDigits
AllZero(seq) == \A i \in 1..Len(seq) : seq[i] = "0"
Dash == <<"-">>

Context(traceId, spanId, traceFlags) ==
    [traceId |-> traceId, spanId |-> spanId, traceFlags |-> traceFlags]
NoContext == [ok |-> FALSE, traceId |-> <<>>, spanId |-> <<>>, traceFlags |-> 0]

Inject_NoVersion(ctx) ==
    ctx.traceId \o Dash \o ctx.spanId \o Dash
        \o <<"0", CHOOSE c \in HexDigits : HexValue[c] = ctx.traceFlags>>

\* propagator.inject: `00-${traceId}-${spanId}-0${traceFlags.toString(16)}`
Inject(ctx) ==
    <<"0", "0">> \o Dash \o ctx.traceId \o Dash \o ctx.spanId \o Dash
        \o <<"0", CHOOSE c \in HexDigits : HexValue[c] = ctx.traceFlags>>

ParseTraceParent_AnyVersion(header) ==
    LET s == IF header # <<>> /\ Head(header) \in Whitespace THEN Tail(header) ELSE header
        n == ByteLen + 1 + TraceIdLen + 1 + SpanIdLen + 1 + ByteLen
        version == SubSeq(s, 1, ByteLen)
        traceId == SubSeq(s, ByteLen + 2, ByteLen + 1 + TraceIdLen)
        spanId == SubSeq(s, ByteLen + TraceIdLen + 3, ByteLen + TraceIdLen + 2 + SpanIdLen)
        flags == SubSeq(s, n - ByteLen + 1, n)
        rest == SubSeq(s, n + 1, Len(s))
        more == rest # <<>> /\ Head(rest) = "-"
        match ==
            /\ Len(s) >= n
            /\ IsHex(version) /\ version # <<"f", "f">>
            /\ s[ByteLen + 1] = "-"
            /\ IsHex(traceId) /\ ~AllZero(traceId)
            /\ s[ByteLen + TraceIdLen + 2] = "-"
            /\ IsHex(spanId) /\ ~AllZero(spanId)
            /\ s[n - ByteLen] = "-"
            /\ IsHex(flags)
            /\ (rest = <<>> \/ more \/ (Len(rest) = 1 /\ rest[1] \in Whitespace))
    IN  IF ~match
        THEN NoContext
        ELSE [ok |-> TRUE, traceId |-> traceId, spanId |-> spanId,
              traceFlags |-> 16 * HexValue[flags[1]] + HexValue[flags[2]]]

\* parseTraceParent of the W3C propagator: the header is matched against
\* ^\s?(version)-(trace id)-(span id)-(flags)(-.*)?\s?$ where the version is
\* two hex digits other than ff and neither id is all zeros; a version 00
\* header with anything after the flags is rejected
ParseTraceParent(header) ==
    LET s == IF header # <<>> /\ Head(header) \in Whitespace THEN Tail(header) ELSE header
        n == ByteLen + 1 + TraceIdLen + 1 + SpanIdLen + 1 + ByteLen
        version == SubSeq(s, 1, ByteLen)
        traceId == SubSeq(s, ByteLen + 2, ByteLen + 1 + TraceIdLen)
        spanId == SubSeq(s, ByteLen + TraceIdLen + 3, ByteLen + TraceIdLen + 2 + SpanIdLen)
        flags == SubSeq(s, n - ByteLen + 1, n)
        rest == SubSeq(s, n + 1, Len(s))
        more == rest # <<>> /\ Head(rest) = "-"
        match ==
            /\ Len(s) >= n
            /\ IsHex(version) /\ version # <<"f", "f">>
            /\ s[ByteLen + 1] = "-"
            /\ IsHex(traceId) /\ ~AllZero(traceId)
            /\ s[ByteLen + TraceIdLen + 2] = "-"
            /\ IsHex(spanId) /\ ~AllZero(spanId)
            /\ s[n - ByteLen] = "-"
            /\ IsHex(flags)
            /\ (rest = <<>> \/ more \/ (Len(rest) = 1 /\ rest[1] \in Whitespace))
    IN  IF ~match \/ (version = <<"0", "0">> /\ more)
        THEN NoContext
        ELSE [ok |-> TRUE, traceId |-> traceId, spanId |-> spanId,
              traceFlags |-> 16 * HexValue[flags[1]] + HexValue[flags[2]]]

\* propagator.extract: a missing or empty header, or one that does not
\* parse, leaves the context without a remote span
Extract(header) == IF header = <<>> THEN NoContext ELSE ParseTraceParent(header)

\* ids as the SDK's generator makes them
ValidTraceIds == {Rep("a", TraceIdLen), ZerosThen("1", TraceIdLen)}
ValidSpanIds == {Rep("c", SpanIdLen), ZerosThen("1", SpanIdLen)}
ValidContexts ==
    {Context(t, sp, f) : t \in ValidTraceIds, sp \in ValidSpanIds, f \in {0, 1}}

\* what any other client may put into the header
Absent == <<"absent">>
WireVersions == {<<"0", "0">>, <<"0", "1">>, <<"f", "f">>, <<"0">>}
WireTraceIds ==
    ValidTraceIds \cup {Rep("0", TraceIdLen), Rep("a", TraceIdLen - 1),
                        Rep("a", TraceIdLen + 1), ZerosThen("g", TraceIdLen),
                        Rep("A", TraceIdLen)}
WireSpanIds ==
    ValidSpanIds \cup {Rep("0", SpanIdLen), Rep("c", SpanIdLen - 1),
                       Rep("c", SpanIdLen + 1), ZerosThen("g", SpanIdLen),
                       Rep("C", SpanIdLen)}
WireFlags == {<<"0", "1">>, <<"0", "0">>, <<"1">>, <<"z", "z">>, Absent}
WireExtras == {<<>>, <<"-", "x">>, <<"x">>}
WireHeaders ==
    {<<>>} \cup
    {v \o Dash \o t \o Dash \o sp \o (IF f = Absent THEN <<>> ELSE Dash \o f) \o x :
        v \in WireVersions, t \in WireTraceIds, sp \in WireSpanIds,
        f \in WireFlags, x \in WireExtras}

\* ids the backend generates for its own spans
FreshTraceId == Rep("e", TraceIdLen)
FreshSpanId(k) == Rep(CHOOSE c \in HexDigits : HexValue[c] = k, SpanIdLen)
NoParent == <<>>

\* a span that is not recording keeps only its span context
BackendSpan(traceId, k, parent, recording) ==
    [traceId |-> traceId, spanId |-> FreshSpanId(k),
     parent |-> IF recording THEN parent ELSE NoParent,
     recording |-> recording]

\* the page's fetch instrumentation sends a request while span ctx is active
BrowserFetch(ctx) ==
    /\ prop.pc = "idle"
    /\ prop' = [prop EXCEPT !.pc = "sent", !.traced = TRUE, !.ctx = ctx,
                            !.header = Inject(ctx)]
    /\ UNCHANGED <<enabled, frames, spans, als, costIn, costOut, llm, exp, logs, test, fe, con, px, term>>

\* a request from any other client, with whatever traceparent it carries
ClientRequest(header) ==
    /\ prop.pc = "idle"
    /\ prop' = [prop EXCEPT !.pc = "sent", !.traced = FALSE, !.header = header]
    /\ UNCHANGED <<enabled, frames, spans, als, costIn, costOut, llm, exp, logs, test, fe, con, px, term>>

ServerSpan_Fresh(remote) == BackendSpan(FreshTraceId, 1, NoParent, TRUE)

\* the HTTP instrumentation's server span, started in the extracted context
ServerSpan(remote) ==
    IF remote.ok
    THEN BackendSpan(remote.traceId, 1, remote.spanId, remote.traceFlags % 2 = 1)
    ELSE BackendSpan(FreshTraceId, 1, NoParent, TRUE)

\* the backend receives the request
Receive ==
    /\ enabled
    /\ prop.pc = "sent"
    /\ LET remote == Extract(prop.header)
       IN  prop' = [prop EXCEPT !.pc = "handling", !.remote = remote,
                                !.spans = <<ServerSpan(remote)>>]
    /\ UNCHANGED <<enabled, frames, spans, als, costIn, costOut, llm, exp, logs, test, fe, con, px, term>>

\* a tool or model wrapper starts its span while span p of the request is
\* the active one
HandlerSpan(p) ==
    /\ prop.pc = "handling"
    /\ p \in 1..Len(prop.spans)
    /\ Len(prop.spans) < MaxBackendSpans
    /\ prop' = [prop EXCEPT !.spans = Append(@,
                   BackendSpan(prop.spans[p].traceId, Len(prop.spans) + 1,
                               prop.spans[p].spanId, prop.spans[p].recording))]
    /\ UNCHANGED <<enabled, frames, spans, als, costIn, costOut, llm, exp, logs, test, fe, con, px, term>>

\* the response is sent
Respond ==
    /\ prop.pc = "handling"
    /\ prop' = [prop EXCEPT !.pc = "done"]
    /\ UNCHANGED <<enabled, frames, spans, als, costIn, costOut, llm, exp, logs, test, fe, con, px, term>>

NextPropagation ==
    \/ \E ctx \in ValidContexts : BrowserFetch(ctx)
    \/ \E header \in WireHeaders : ClientRequest(header)
    \/ Receive
    \/ \E p \in 1..MaxBackendSpans : HandlerSpan(p)
    \/ Respond

SpecPropagation == Init /\ [][NextPropagation]_vars

RECURSIVE SplitFrom(_, _, _)
SplitFrom(header, i, field) ==
    IF i > Len(header) THEN <<field>>
    ELSE IF header[i] = "-" THEN <<field>> \o SplitFrom(header, i + 1, <<>>)
    ELSE SplitFrom(header, i + 1, Append(field, header[i]))
\* the fields of a header, separated by "-"
Fields(header) == SplitFrom(header, 1, <<>>)

BadSegments(f) ==
    \/ Len(f[1]) # ByteLen \/ Len(f[2]) # TraceIdLen
    \/ Len(f[3]) # SpanIdLen \/ Len(f[4]) # ByteLen
    \/ \E i \in 1..4 : ~IsHex(f[i])
    \/ AllZero(f[2]) \/ AllZero(f[3])

Received == prop.pc \in {"handling", "done"}
FreshTrace ==
    /\ ~prop.remote.ok
    /\ prop.spans[1].parent = NoParent
    /\ \A k \in 1..Len(prop.spans) :
          prop.spans[k].traceId = FreshTraceId /\ prop.spans[k].recording

\* C17 as stated: a header with a wrong field count, with wrong-length or
\* non-hex segments, or with an all-zero trace id or span id decodes to
\* null and the request runs under a fresh trace without a parent.
MalformedStartsFreshTrace ==
    LET f == Fields(prop.header)
    IN  (Received /\ (Len(f) # 4 \/ BadSegments(f))) => FreshTrace

\* C17 as amended: a header with fewer than four fields, with more than
\* four fields under version 00, with wrong-length or non-hex segments among
\* the first four, or with an all-zero trace id or span id decodes to null
\* and the request runs under a fresh trace without a parent; a header of
\* another version than 00 and ff whose first four fields are well formed
\* is decoded from them whatever follows.
MalformedStartsFreshTraceOrLaterVersion ==
    LET f == Fields(prop.header)
    IN  /\ (Received /\ (\/ Len(f) < 4
                         \/ (Len(f) > 4 /\ f[1] = <<"0", "0">>)
                         \/ BadSegments(f)))
           => FreshTrace
        /\ (Received /\ Len(f) > 4 /\ ~BadSegments(f)
                /\ f[1] \notin {<<"0", "0">>, <<"f", "f">>})
           => /\ prop.remote.ok
              /\ prop.remote.traceId = f[2] /\ prop.remote.spanId = f[3]
              /\ prop.spans[1].traceId = f[2]

\* a version 00 header with a fifth field and otherwise well formed was
\* received and its request handled to the end under a fresh trace
MalformedWitness ==
    LET f == Fields(prop.header)
    IN  /\ prop.pc = "done" /\ Len(prop.spans) = MaxBackendSpans
        /\ Len(f) = 5 /\ f[1] = <<"0", "0">> /\ ~BadSegments(f)
        /\ FreshTrace

\* C18: the header written for a valid context is
\* 00-<32 lowercase hex>-<16 lowercase hex>-<flags>, and reading it back
\* gives the trace id, span id and sampled flag of the context.
HeaderRoundTrip ==
    LET f == Fields(prop.header)
    IN  (prop.traced /\ prop.pc # "idle")
        => /\ Len(f) = 4 /\ ~BadSegments(f)
           /\ f[1] = <<"0", "0">>
           /\ f[2] = prop.ctx.traceId /\ f[3] = prop.ctx.spanId
           /\ f[4] = <<"0", IF prop.ctx.traceFlags = 1 THEN "1" ELSE "0">>
           /\ Received
              => /\ prop.remote.ok
                 /\ prop.remote.traceId = prop.ctx.traceId
                 /\ prop.remote.spanId = prop.ctx.spanId
                 /\ prop.remote.traceFlags = prop.ctx.traceFlags

\* the header of an unsampled context whose ids are zeros but for the last
\* digit was written and read back
HeaderRoundTripWitness ==
    /\ prop.traced /\ Received
    /\ prop.ctx = Context(ZerosThen("1", TraceIdLen), ZerosThen("1", SpanIdLen), 0)
    /\ prop.remote.ok

\* C19: a request sent by the browser under an active span and received
\* with its header is continued: every backend span of the request has the
\* browser span's trace id, and the first backend span's parent is the
\* browser span id of the header (the page samples every trace).
TraceContinued ==
    (prop.traced /\ Received)
    => /\ \A k \in 1..Len(prop.spans) : prop.spans[k].traceId = prop.ctx.traceId
       /\ prop.ctx.traceFlags = 1
          => /\ prop.spans[1].parent = prop.ctx.spanId
             /\ \A k \in 1..Len(prop.spans) : prop.spans[k].recording

\* the browser's request was handled with a server span and nested wrapper
\* spans below it
TraceContinuedWitness ==
    /\ prop.traced /\ prop.pc = "done" /\ prop.ctx.traceFlags = 1
    /\ Len(prop.spans) = MaxBackendSpans
    /\ prop.spans[1].parent = prop.ctx.spanId
    /\ \A k \in 2..Len(prop.spans) : prop.spans[k].parent = prop.spans[k - 1].spanId

(***************************************************************************)
(* Log records: the transports call logger.emit(record) without a context  *)
(***************************************************************************)
LogRecord_Global(p) ==
    LET active == ActiveSpan_Global(p)
    IN  [by |-> p, span |-> active,
         trace |-> IF active = 0 THEN 0 ELSE spans[active].trace]

\* logger.emit(record): the record takes the span context of
\* context.active(), and none when no span is active there
LogRecord(p) ==
    LET active == ActiveSpan(p)
    IN  [by |-> p, span |-> active,
         trace |-> IF active = 0 THEN 0 ELSE spans[active].trace]

\* code running in the body of frame p (0: the top level) logs a message
Log(p) ==
    /\ Len(logs) < MaxLogs
    /\ CanCallFrom(p)
    /\ logs' = Append(logs, LogRecord(p))
    /\ UNCHANGED <<enabled, frames, spans, als, costIn, costOut, llm, exp, prop,
                   test, fe, con, px, term>>

NextLog ==
    \/ \E p \in 0..Len(frames), i \in NestValues : CallTool("tool", p, i)
    \/ \E p \in 0..Len(frames) : CallConn(p)
    \/ \E f \in 1..Len(frames), o \in Settlements(NestValues, {}) : Settle(f, o)
    \/ \E p \in 0..Len(frames) : Log(p)

SpecLog == Init /\ [][NextLog]_vars

\* C21: every log record carries the trace id and span id of the span that
\* was active where it was emitted, and neither id when none was.
LogCorrelation ==
    \A r \in 1..Len(logs) :
        LET e == ChainOf(logs[r].by)
        IN  IF e = 0
            THEN logs[r].span = 0 /\ logs[r].trace = 0
            ELSE /\ logs[r].span = frames[e].span
                 /\ logs[r].trace = spans[frames[e].span].trace

\* while two tool calls were in flight a record was emitted inside the
\* first one and another at the top level
LogCorrelationWitness ==
    \E i \in Frames, j \in Frames :
        /\ i < j /\ frames[i].entered /\ frames[j].entered
        /\ Len(logs) = 2
        /\ logs[1].by = i /\ logs[1].span = frames[i].span /\ logs[1].trace # 0
        /\ logs[2].by = 0 /\ logs[2].span = 0

(***************************************************************************)
(* POST /api/config/otel/test                                              *)
(***************************************************************************)
TraceParents == {"none", "sampled", "unsampled"}   \* the request's traceparent
Collectors == {"up", "down"}

\* tracer.startSpan('otel_config_test') of the test provider: the parent is
\* the active span, which with the SDK running is the HTTP server span of
\* this request; the default parent-based sampler does not record a span
\* whose parent is not sampled
TestSampled(traceparent) == ~(enabled /\ traceparent = "unsampled")

\* the handler up to `await provider.forceFlush()`
TestRequest(traceparent, collector) ==
    /\ test.pc = "idle"
    /\ Len(test.served) < MaxRequests
    /\ LET recorded == TestSampled(traceparent)
       IN  test' = [test EXCEPT !.pc = "flushing", !.traceparent = traceparent,
                                !.collector = collector, !.recorded = recorded,
                                \* span.end() hands a recorded span to the processor
                                !.queue = IF recorded THEN 1 ELSE 0,
                                !.exported = 0, !.responses = <<>>]
    /\ UNCHANGED <<enabled, frames, spans, als, costIn, costOut, llm, exp, prop,
                   logs, fe, con, px, term>>

Response(status, success) == [status |-> status, success |-> success]

\* forceFlush settles and the handler answers: it resolves when there was
\* nothing to export or the export succeeded, and rejects when the export
\* failed or timed out
TestFlushed(outcome) ==
    /\ test.pc = "flushing"
    /\ outcome = "success" => test.collector = "up"
    /\ LET sent == test.queue > 0
           ok == ~sent \/ outcome = "success"
           answered == [test EXCEPT
                !.pc = "idle", !.queue = 0,
                !.exported = IF sent /\ ok THEN 1 ELSE 0,
                !.responses = Append(@, IF ok THEN Response(200, TRUE)
                                        ELSE Response(500, FALSE))]
       IN  test' = [answered EXCEPT !.served = Append(@,
                        [traceparent |-> answered.traceparent,
                         collector |-> answered.collector,
                         failed |-> sent /\ ~ok,
                         exported |-> answered.exported,
                         responses |-> answered.responses])]
    /\ UNCHANGED <<enabled, frames, spans, als, costIn, costOut, llm, exp, prop,
                   logs, fe, con, px, term>>

NextTest ==
    \/ \E tp \in TraceParents, c \in Collectors : TestRequest(tp, c)
    \/ \E outcome \in {"success", "failure"} : TestFlushed(outcome)

SpecTest == Init /\ [][NextTest]_vars

\* C22: every request gets exactly one response; success true with 200 only
\* when the test span was exported to a reachable collector, and 500 with
\* success false whenever the collector is unreachable or the export failed.
TestAnswersTruthfully ==
    \A r \in 1..Len(test.served) :
        LET q == test.served[r]
        IN  /\ Len(q.responses) = 1
            /\ q.responses[1].success
               => /\ q.responses[1].status = 200
                  /\ q.exported = 1 /\ q.collector = "up"
            /\ (q.collector = "down" \/ q.failed)
               => q.responses[1] = Response(500, FALSE)

\* C23: every per-tool span started by traceBatchMCPCalls has the batch span
\* as its parent and the batch span's trace id.
BatchParenting ==
    \A f \in Frames :
        (frames[f].batch # 0 /\ frames[f].span # 0)
        => /\ SpanOf(f).parent = frames[frames[f].batch].span
           /\ SpanOf(f).trace = SpanOf(frames[f].batch).trace

\* C24: every tool call of a batch is started; each per-tool span is ended
\* exactly once, with its own outcome, when its executeFn settles, whatever
\* its siblings did; the batch resolves, with status OK and the results in
\* call order, only if every tool call resolved, and otherwise rejects with
\* the error of the first tool call to fail and ends its span with ERROR.
BatchOutcomes ==
    \A b \in Frames :
        frames[b].kind = "batch"
        => LET kids == Kids(frames, b)
               first == CHOOSE k \in kids : \A j \in kids : k <= j
           IN  /\ \A k \in kids :
                    /\ frames[k].execCount = 1
                    /\ frames[k].span # 0
                    /\ SpanOf(k).ends = (IF frames[k].exec.st = "pending" THEN 0 ELSE 1)
                    /\ frames[k].exec.st = "resolved" => SpanOf(k).status = "OK"
                    /\ frames[k].exec.st = "rejected" => SpanOf(k).status = "ERROR"
               /\ frames[b].exec.st = "pending"
                  => \A k \in kids : frames[k].exec.st # "rejected"
               /\ Done(b)
                  => IF \A k \in kids : frames[k].exec.st = "resolved"
                     THEN /\ frames[b].ret = Resolved(ArrayOf(
                                [i \in 1..Cardinality(kids) |-> frames[first + i - 1].exec.v]))
                          /\ SpanOf(b).status = "OK"
                     ELSE /\ frames[b].ret.st = "rejected"
                          /\ \E k \in kids : /\ frames[k].exec.st = "rejected"
                                             /\ frames[b].ret.v = frames[k].exec.v
                          /\ SpanOf(b).status = "ERROR"

(***************************************************************************)
(* instrumentMCPClient: the proxy's get trap and the function it returns   *)
(***************************************************************************)
StringProps == {"callTool", "call_tool", "tool_read", "connect", "serverInfo"}
SymbolProps == {"Symbol(close)"}          \* a method under a symbol key
ClientProps == StringProps \cup SymbolProps
\* the original client: every property but serverInfo is a method
IsFunction(key) == key # "serverInfo"

\* what the original method does when called
Behaviours == {"returns", "throws", "resolves", "rejects"}
ToolName == Str
ProxyArgs ==
    {<<a, b>> : a \in {ToolName, ObjSmall, Circular, Undefined},
                b \in {ObjSmall, Circular, Undefined, Null}}

Got(form, v) == [form |-> form, v |-> v]
\* what a direct call of the original method gives its caller
Original(behaviour) ==
    CASE behaviour = "returns" -> Got("value", ObjSmall)
      [] behaviour = "throws" -> Got("throw", ErrObj)
      [] behaviour = "resolves" -> Got("promise resolved", ObjSmall)
      [] OTHER -> Got("promise rejected", ErrObj)

\* an async function's promise for a body that does `return original(...)`
AsyncReturn(behaviour) ==
    IF behaviour \in {"returns", "resolves"} THEN Got("promise resolved", ObjSmall)
    ELSE Got("promise rejected", ErrObj)

\* args[i] || {}
OrEmptyObject(v) == IF IsNullish(v) THEN ObjSmall ELSE v

\* prop === 'callTool' || prop === 'call_tool' || prop.startsWith('tool_')
IsToolCall(key) == key \in {"callTool", "call_tool", "tool_read"}

\* get(target, prop)
ProxyGet(key) ==
    /\ px.pc = "idle"
    /\ px' = [NoProxy EXCEPT !.pc = "got", !.prop = key,
                             !.got = IF IsFunction(key) THEN "wrapper" ELSE "value"]
    /\ UNCHANGED <<enabled, frames, spans, als, costIn, costOut, llm, exp, prop,
                   logs, test, fe, con, term>>

\* the async function returned by the get trap, called with args
ProxyCall(args, behaviour) ==
    /\ px.pc = "got" /\ px.got = "wrapper"
    /\ px.calls < MaxProxyCalls
    /\ LET called == [px EXCEPT !.calls = @ + 1, !.args = args, !.original = behaviour]
           invoked == [called EXCEPT !.invocations = @ + 1, !.receiver = "target",
                                     !.passed = args]
           toolName == IF px.prop = "tool_read" THEN Val("string", 11, FALSE) ELSE args[1]
           toolInput == IF px.prop = "tool_read" THEN OrEmptyObject(args[1])
                        ELSE OrEmptyObject(args[2])
           span == NewSpan(0, 1, TRUE, NoAttr)
       IN  px' =
           IF px.prop \in SymbolProps
           THEN \* a symbol has no startsWith
                [called EXCEPT !.caller = Got("promise rejected", TypeErr)]
           ELSE IF ~IsToolCall(px.prop)
           THEN [invoked EXCEPT !.caller = AsyncReturn(behaviour)]
           ELSE IF ~enabled
           THEN \* traceMCPToolCall: () => {}
                [called EXCEPT !.getters = @ + 1,
                               !.caller = Got("promise resolved", Undefined)]
           ELSE IF JsonStringify(toolInput).k = "throws"
           THEN [called EXCEPT !.getters = @ + 1,
                               !.caller = Got("promise rejected", TypeErr)]
           ELSE LET o == ToolAfter(span, IF behaviour \in {"returns", "resolves"}
                                         THEN Resolved(ObjSmall) ELSE Rejected(ErrObj))
                IN  [invoked EXCEPT !.getters = @ + 1,
                                    !.spansMade = @ + 1,
                                    !.spanTool = toolName, !.spanInput = toolInput,
                                    !.caller = Got(IF o.ret.st = "resolved"
                                                   THEN "promise resolved"
                                                   ELSE "promise rejected", o.ret.v)]
    /\ UNCHANGED <<enabled, frames, spans, als, costIn, costOut, llm, exp, prop,
                   logs, test, fe, con, term>>

\* the caller is done with the property it read
ProxyDone ==
    /\ px.pc = "got"
    /\ px' = NoProxy
    /\ UNCHANGED <<enabled, frames, spans, als, costIn, costOut, llm, exp, prop,
                   logs, test, fe, con, term>>

NextProxy ==
    \/ \E key \in ClientProps : ProxyGet(key)
    \/ \E args \in ProxyArgs, b \in Behaviours : ProxyCall(args, b)
    \/ ProxyDone

SpecProxy == Init /\ [][NextProxy]_vars

\* C25: a callTool or call_tool through the proxy invokes the original
\* method exactly once per call, with the same arguments and the original
\* client as receiver, inside exactly one tool span named by the first
\* argument with the second argument (or {} when absent) as input; tool_*
\* methods are traced under their method name with the first argument as
\* input; the metadata getters are evaluated at each call.
ProxyToolCall ==
    (px.calls > 0 /\ IsToolCall(px.prop))
    => /\ px.invocations = px.calls
       /\ px.receiver = "target" /\ px.passed = px.args
       /\ px.spansMade = px.calls
       /\ px.getters = px.calls
       /\ IF px.prop = "tool_read"
          THEN /\ px.spanTool = Val("string", 11, FALSE)
               /\ px.spanInput = OrEmptyObject(px.args[1])
          ELSE /\ px.spanTool = px.args[1]
               /\ px.spanInput = OrEmptyObject(px.args[2])

\* C26: a property of the proxy that is not a tool call behaves as on the
\* original client: a non-function property is returned unchanged, and a
\* non-tool method creates no span and gives its caller what the original
\* gives, a value returned or an exception thrown synchronously.
ProxyTransparent ==
    /\ (px.pc = "got" /\ ~IsFunction(px.prop)) => px.got = "value"
    /\ (px.calls > 0 /\ px.prop \in ClientProps \ {"callTool", "call_tool", "tool_read"})
       => /\ px.spansMade = 0
          /\ px.invocations = px.calls
          /\ px.caller = Original(px.original)

(***************************************************************************)
(* The page: initializeOTEL and traceUserAction                            *)
(***************************************************************************)
InitCall(pc, result) == [pc |-> pc, result |-> result]

\* initializeOTEL() up to `await fetch('/api/config/otel')`
InitStart ==
    /\ Len(fe.calls) < MaxInitCalls
    /\ fe' = [fe EXCEPT !.calls = Append(@,
                 IF fe.otelInitialized
                 THEN InitCall("done", "already")
                 ELSE InitCall("fetch", "pending"))]
    /\ UNCHANGED <<enabled, frames, spans, als, costIn, costOut, llm, exp, prop,
                   logs, test, con, px, term>>

InitCatch_Surfaced(call) == InitCall("done", "rejected")

\* catch (error) { console.error(...) }: the call's promise resolves
InitCatch(call) == InitCall("done", "failed")

FetchOutcomes == {"rejects", "not ok", "ok"}

\* the fetch settles; with an OK response the call awaits response.json()
InitFetched(c, outcome) ==
    /\ c \in 1..Len(fe.calls)
    /\ fe.calls[c].pc = "fetch"
    /\ fe' = [fe EXCEPT !.calls[c] = IF outcome = "ok" THEN InitCall("json", "pending")
                                     ELSE InitCatch(@)]
    /\ UNCHANGED <<enabled, frames, spans, als, costIn, costOut, llm, exp, prop,
                   logs, test, con, px, term>>

\* what response.json() settles with
ConfigOutcomes == {"rejects", "disabled", "enabled"}
\* where the set-up throws: in the resource, exporter or provider, in
\* registerInstrumentations, in instrumentConsole, in instrumentErrors, or
\* nowhere
SetupFailures == {"provider", "instrumentations", "console", "errors", "none"}

\* the set-up from the resource to `otelInitialized = true`
Setup(f, c, failAt) ==
    LET registered == [f EXCEPT !.registered = @ + 1]
        console == [registered EXCEPT !.consoleInstrumented = @ + 1]
        errors == [console EXCEPT !.errorsInstrumented = @ + 1]
    IN  CASE failAt = "provider" -> [f EXCEPT !.calls[c] = InitCatch(@)]
          [] failAt = "instrumentations" -> [registered EXCEPT !.calls[c] = InitCatch(@)]
          [] failAt = "console" -> [registered EXCEPT !.calls[c] = InitCatch(@)]
          [] failAt = "errors" -> [console EXCEPT !.calls[c] = InitCatch(@)]
          [] OTHER -> [errors EXCEPT !.otelInitialized = TRUE,
                                     !.calls[c] = InitCall("done", "initialized")]

\* response.json() settles and the rest of the try block runs
InitConfigured(c, config, failAt) ==
    /\ c \in 1..Len(fe.calls)
    /\ fe.calls[c].pc = "json"
    /\ fe' = CASE config = "rejects" -> [fe EXCEPT !.calls[c] = InitCatch(@)]
               [] config = "disabled" -> [fe EXCEPT !.calls[c] = InitCall("done", "disabled")]
               [] OTHER -> Setup(fe, c, failAt)
    /\ UNCHANGED <<enabled, frames, spans, als, costIn, costOut, llm, exp, prop,
                   logs, test, con, px, term>>

\* traceUserAction(name, fn, attributes) where fn settles with exec
UserAction(initialized, exec) ==
    IF ~initialized
    THEN \* return await fn()
         [initialized |-> initialized, exec |-> exec, runs |-> 1, spans |-> 0,
          ret |-> exec]
    ELSE LET o == PlainAfter(NewSpan(0, 1, TRUE, NoAttr), exec)
         IN  [initialized |-> initialized, exec |-> exec, runs |-> 1, spans |-> 1,
              ret |-> o.ret]

TraceUserAction(exec) ==
    /\ Len(fe.actions) < MaxActions
    /\ fe' = [fe EXCEPT !.actions = Append(@, UserAction(fe.otelInitialized, exec))]
    /\ UNCHANGED <<enabled, frames, spans, als, costIn, costOut, llm, exp, prop,
                   logs, test, con, px, term>>

NextFrontend ==
    \/ InitStart
    \/ \E c \in 1..MaxInitCalls, o \in FetchOutcomes : InitFetched(c, o)
    \/ \E c \in 1..MaxInitCalls, cfg \in ConfigOutcomes, failAt \in SetupFailures :
          InitConfigured(c, cfg, failAt)
    \/ \E exec \in Settlements({ObjSmall, Undefined}, {ErrObj, Null}) : TraceUserAction(exec)

SpecFrontend == Init /\ [][NextFrontend]_vars

\* C27: however many calls of initializeOTEL are made, overlapping or not,
\* the tracer provider is registered and the console and the error handlers
\* are instrumented at most once.
InitializedAtMostOnce ==
    /\ fe.registered <= 1
    /\ fe.consoleInstrumented <= 1
    /\ fe.errorsInstrumented <= 1

\* C28: a failed initialization (fetch rejected, response not OK, a set-up
\* step threw) or a disabled configuration is not surfaced: the call's
\* promise resolves and leaves otelInitialized false, and a traceUserAction
\* made while it is false runs fn exactly once, creates no span and settles
\* as fn does.
InitFailureContained ==
    /\ \A c \in 1..Len(fe.calls) : fe.calls[c].result # "rejected"
    /\ fe.otelInitialized
       <=> \E c \in 1..Len(fe.calls) : fe.calls[c].result = "initialized"
    /\ \A a \in 1..Len(fe.actions) :
          ~fe.actions[a].initialized
          => /\ fe.actions[a].runs = 1
             /\ fe.actions[a].spans = 0
             /\ fe.actions[a].ret = fe.actions[a].exec

\* one call failed in the set-up after the provider was registered, another
\* found tracing disabled, and an action whose fn rejected ran untraced
InitFailureWitness ==
    /\ ~fe.otelInitialized /\ fe.registered > 0
    /\ \E c \in 1..Len(fe.calls) : fe.calls[c] = InitCall("done", "failed")
    /\ \E c \in 1..Len(fe.calls) : fe.calls[c] = InitCall("done", "disabled")
    /\ \E a \in 1..Len(fe.actions) :
          /\ fe.actions[a].exec.st = "rejected" /\ fe.actions[a].spans = 0

\* ---------------------------------------------------------------------
\* The browser's console logger: console.log and its siblings are replaced
\* by functions that print through the original method and then call
\* captureLog. A console call made by formatArgs (a toJSON or a getter of
\* an argument) or by logger.emit runs inside the outer captureLog.

MaxMessageLength == 50000
MessageLengths == {0, MaxMessageLength, MaxMessageLength + 1}
Throwing == {"returns", "throws"}

\* captureLog returned or threw: what the caller finds
Return(c, nested, exit) ==
    [c EXCEPT !.returned = Append(@, [nested |-> nested, exit |-> exit,
                                      isLogging |-> c.isLogging])]

Finally_Keep(c) == c

\* finally { this.isLogging = false; }
Finally(c) == [c EXCEPT !.isLogging = FALSE]

\* the try block up to the call of logToOpenTelemetry
FormatExit(format, length) ==
    IF format = "throws" THEN "formatThrew"
    ELSE IF length > MaxMessageLength THEN "skipped"
    ELSE "emit"

\* logToOpenTelemetry: this.logger.emit(...)
EmitExit(emit) == IF emit = "throws" THEN "emitThrew" ELSE "emitted"

\* the way out of the try block, through finally
Leave(c, nested, exit) ==
    Return(Finally([c EXCEPT !.warned = @ + (IF exit = "skipped" THEN 1 ELSE 0),
                             !.emitted = @ + (IF exit = "emitted" THEN 1 ELSE 0)]),
           nested, exit)

ConsoleCalls == Len(con.returned) + (IF con.pc = "idle" THEN 0 ELSE 1)

\* console.log(...args) from application code: the original method prints,
\* captureLog passes its guard or returns
ConsoleCall(length) ==
    /\ con.pc = "idle"
    /\ ConsoleCalls < MaxConsoleCalls
    /\ LET c == [con EXCEPT !.printed = @ + 1]
       IN  con' = IF c.isLogging
                  THEN Return(c, FALSE, "guard")
                  ELSE [c EXCEPT !.isLogging = TRUE, !.pc = "formatting",
                                 !.length = length]
    /\ UNCHANGED <<enabled, frames, spans, als, costIn, costOut, llm, exp, prop,
                   logs, test, fe, px, term>>

\* a console call made while the outer captureLog is in formatArgs or in
\* logger.emit; it runs to its end before the outer call goes on
NestedCall(length, format, emit) ==
    /\ con.pc # "idle"
    /\ ConsoleCalls < MaxConsoleCalls
    /\ LET c == [con EXCEPT !.printed = @ + 1]
           e == FormatExit(format, length)
       IN  con' = IF c.isLogging
                  THEN Return(c, TRUE, "guard")
                  ELSE Leave([c EXCEPT !.isLogging = TRUE], TRUE,
                             IF e = "emit" THEN EmitExit(emit) ELSE e)
    /\ UNCHANGED <<enabled, frames, spans, als, costIn, costOut, llm, exp, prop,
                   logs, test, fe, px, term>>

\* formatArgs of the outer call is over, and the length test
Format(format) ==
    /\ con.pc = "formatting"
    /\ LET e == FormatExit(format, con.length)
       IN  con' = IF e = "emit"
                  THEN [con EXCEPT !.pc = "emitting"]
                  ELSE [Leave(con, FALSE, e) EXCEPT !.pc = "idle"]
    /\ UNCHANGED <<enabled, frames, spans, als, costIn, costOut, llm, exp, prop,
                   logs, test, fe, px, term>>

\* logToOpenTelemetry of the outer call is over
Emit(emit) ==
    /\ con.pc = "emitting"
    /\ con' = [Leave(con, FALSE, EmitExit(emit)) EXCEPT !.pc = "idle"]
    /\ UNCHANGED <<enabled, frames, spans, als, costIn, costOut, llm, exp, prop,
                   logs, test, fe, px, term>>

NextConsole ==
    \/ \E length \in MessageLengths : ConsoleCall(length)
    \/ \E length \in MessageLengths, format \in Throwing, emit \in Throwing :
          NestedCall(length, format, emit)
    \/ \E format \in Throwing : Format(format)
    \/ \E emit \in Throwing : Emit(emit)

SpecConsole == Init /\ [][NextConsole]_vars

\* C29: a console call made while captureLog runs is not forwarded to the
\* telemetry logger; every captureLog call that passed the guard leaves
\* isLogging false, whether it emitted, skipped a message longer than 50000
\* or threw; so the flag is false between console calls and no call from
\* application code is stopped by the guard.
CaptureNeverReenters ==
    /\ \A r \in 1..Len(con.returned) :
          /\ con.returned[r].nested => con.returned[r].exit = "guard"
          /\ con.returned[r].exit # "guard" => ~con.returned[r].isLogging
          /\ ~con.returned[r].nested => con.returned[r].exit # "guard"
    /\ con.pc = "idle" => ~con.isLogging
    /\ con.emitted = Cardinality({r \in 1..Len(con.returned) :
                                      con.returned[r].exit = "emitted"})
    /\ con.printed = ConsoleCalls

\* a message was skipped for its length, then an emit threw after a console
\* call made during it, and the flag is false again
CaptureWitness ==
    /\ con.pc = "idle" /\ ~con.isLogging /\ con.warned > 0
    /\ \E r \in 1..Len(con.returned) : con.returned[r].exit = "skipped"
    /\ \E r \in 1..Len(con.returned) : con.returned[r].nested
    /\ \E r \in 1..Len(con.returned) : con.returned[r].exit = "emitThrew"

\* ---------------------------------------------------------------------
\* The backend's SIGTERM handler. Without ENABLE_OTEL the module returns
\* before it installs one and the signal ends the process.

ShutdownOutcomes == {"fulfilled", "rejected"}

\* a span ends in the backend: the batch processor queues it until its
\* shutdown was called
TermSpanEnd ==
    /\ term.pc = "running" /\ enabled
    /\ term.queue + term.flushed + term.dropped < MaxPending
    /\ term' = IF term.sdk = "started"
               THEN [term EXCEPT !.queue = @ + 1]
               ELSE [term EXCEPT !.dropped = @ + 1]
    /\ UNCHANGED <<enabled, frames, spans, als, costIn, costOut, llm, exp, prop,
                   logs, test, fe, con, px>>

\* process.on('SIGTERM', () => { sdk.shutdown()... })
Sigterm ==
    /\ term.pc = "running"
    /\ term.signals < MaxSignals
    /\ term' = IF ~enabled
               THEN [term EXCEPT !.signals = @ + 1, !.pc = "killed"]
               ELSE [term EXCEPT !.signals = @ + 1,
                                 !.chains = Append(@, "pending"),
                                 !.sdk = IF @ = "started" THEN "shuttingDown" ELSE @]
    /\ UNCHANGED <<enabled, frames, spans, als, costIn, costOut, llm, exp, prop,
                   logs, test, fe, con, px>>

\* the batch processor's shutdown flushes all it holds
ShutdownFlush ==
    /\ term.pc = "running"
    /\ term.sdk = "shuttingDown"
    /\ term' = [term EXCEPT !.sdk = "flushed", !.flushed = term.queue, !.queue = 0]
    /\ UNCHANGED <<enabled, frames, spans, als, costIn, costOut, llm, exp, prop,
                   logs, test, fe, con, px>>

\* the promise of sdk.shutdown() settles
ShutdownSettle(i, outcome) ==
    /\ term.pc = "running"
    /\ term.sdk = "flushed"
    /\ i \in 1..Len(term.chains) /\ term.chains[i] = "pending"
    /\ term' = [term EXCEPT !.chains[i] = outcome]
    /\ UNCHANGED <<enabled, frames, spans, als, costIn, costOut, llm, exp, prop,
                   logs, test, fe, con, px>>

ShutdownReactions_Then(i) ==
    /\ term.pc = "running"
    /\ i \in 1..Len(term.chains) /\ term.chains[i] = "fulfilled"
    /\ term' = [term EXCEPT !.pc = "exited", !.exitCode = 0, !.exitedBy = i]
    /\ UNCHANGED <<enabled, frames, spans, als, costIn, costOut, llm, exp, prop,
                   logs, test, fe, con, px>>

\* .then(log).catch(log).finally(() => process.exit(0))
ShutdownReactions(i) ==
    /\ term.pc = "running"
    /\ i \in 1..Len(term.chains) /\ term.chains[i] \in ShutdownOutcomes
    /\ term' = [term EXCEPT !.pc = "exited", !.exitCode = 0, !.exitedBy = i]
    /\ UNCHANGED <<enabled, frames, spans, als, costIn, costOut, llm, exp, prop,
                   logs, test, fe, con, px>>

NextTerm ==
    \/ TermSpanEnd
    \/ Sigterm
    \/ ShutdownFlush
    \/ \E i \in 1..MaxSignals, outcome \in ShutdownOutcomes : ShutdownSettle(i, outcome)
    \/ \E i \in 1..MaxSignals : ShutdownReactions(i)

SpecTerm == Init /\ [][NextTerm]_vars

\* the event loop runs the reactions of a settled promise
SpecTermFair ==
    SpecTerm /\ \A i \in 1..MaxSignals : WF_vars(ShutdownReactions(i))

ShutdownSettled ==
    \E i \in 1..Len(term.chains) : term.chains[i] \in ShutdownOutcomes

ExitOnlyAfterShutdown ==
    /\ (enabled /\ term.signals > 0) => Len(term.chains) = term.signals
    /\ term.pc = "exited"
       => /\ term.exitCode = 0
          /\ term.exitedBy \in 1..Len(term.chains)
          /\ term.chains[term.exitedBy] \in ShutdownOutcomes
          /\ term.sdk = "flushed" /\ term.queue = 0

\* C30: with the SDK started, every SIGTERM calls sdk.shutdown(); the
\* process exits, with code 0, only after a shutdown promise settled and
\* after the queued spans were handed to the shutdown's flush; and once a
\* shutdown promise has settled, fulfilled or rejected, the process exits.
ShutdownThenExit ==
    /\ []ExitOnlyAfterShutdown
    /\ ShutdownSettled ~> (term.pc = "exited")

\* the process exited after a shutdown that rejected and had spans to flush
ShutdownWitness ==
    /\ term.pc = "exited" /\ term.flushed > 0
    /\ term.chains[term.exitedBy] = "rejected"

====
